---- MODULE Spec2Model ----
(***************************************************************************)
(* Model of the WMTS tile downloader (src/src/main.rs): the tile-grid      *)
(* computation (meters_to_tile, get_tile_coords), the semaphore-bounded    *)
(* fetch batch of main, download_tile and create_vrt.                      *)
(*                                                                         *)
(* Numbers.  A Lambert-93 coordinate (an f64 in the source) is held        *)
(* exactly, in units of 0.0001 m, as a record [t, r] that stands for       *)
(* t * tile_size_meters + r with 0 <= r < tile_size_meters.  The split     *)
(* keeps every component inside TLC's 32-bit integers (6075925.1150 m is   *)
(* 60759251150 units).  Arithmetic on these records is exact: the model    *)
(* follows the source's f64 arithmetic up to floating-point rounding       *)
(* error.  Row and column numbers stay far from the i32/u32 limits for     *)
(* every input of the model, so the `as i32` / `as u32` casts of           *)
(* meters_to_tile are the identity here.                                   *)
(***************************************************************************)
EXTENDS Integers, Sequences, FiniteSets, TLC

VARIABLES
    pc,               \* position of main (or of the grid probe)
    bbox,             \* Commands::Get.bbox : <<minX, minY, maxX, maxY>>
    concurrent,       \* Commands::Get.concurrent
    tiles,            \* main's `tiles` (result of get_tile_coords)
    permits,          \* available permits of `semaphore`
    handles,          \* number of JoinHandles pushed by the for loop
    task,             \* task[i] : state of the i-th spawned task
    progress,         \* position of progress_bar
    files,            \* tile files present under <output>/tiles
    results,          \* main's `results` after join_all
    downloaded_tiles, \* AtomicUsize downloaded_tiles
    error_count,      \* AtomicUsize error_count
    vrtFile,          \* content of <output>/mosaic.vrt
    vrtFile0,         \* content of <output>/mosaic.vrt when the run started
    vrtResult,        \* what create_vrt returned
    snap,             \* grid probe: meters_to_tile(bbox.0, bbox.1)
    resnap            \* grid probe: meters_to_tile(snap.2, snap.3)

vars == <<pc, bbox, concurrent, tiles, permits, handles, task, progress, files,
          results, downloaded_tiles, error_count, vrtFile, vrtFile0, vrtResult,
          snap, resnap>>

(***************************************************************************)
(* Bounds of the model                                                     *)
(***************************************************************************)
\* largest distance, in tile widths, of a probed point from the reference
MaxSpan == 2
\* largest value of --concurrent that is explored
MaxConcurrent == 2

(***************************************************************************)
(* Program constants                                                       *)
(***************************************************************************)
TILE_SIZE == 256
\* PIXEL_SIZE = 0.2 m, in units of 0.0001 m
PIXEL_SIZE == 2000
base_row == 195404
base_col == 275651
\* TILE_SIZE as f64 * PIXEL_SIZE = 51.2 m
tile_size_meters == TILE_SIZE * PIXEL_SIZE

(***************************************************************************)
(* Exact arithmetic on coordinates                                         *)
(***************************************************************************)
\* the coordinate t * tile_size_meters + r, normalised to 0 <= r < tile_size_meters
Coord(t, r) == [t |-> t + (r \div tile_size_meters), r |-> r % tile_size_meters]

\* a + b and a - b on f64 coordinates
CoordAdd(a, b) == Coord(a.t + b.t, a.r + b.r)
CoordSub(a, b) == Coord(a.t - b.t, a.r - b.r)
CoordNeg(a) == Coord(0 - a.t, 0 - a.r)

\* n as f64 * tile_size_meters
TileSteps(n) == [t |-> n, r |-> 0]

\* (a / tile_size_meters).round() as i32 : f64::round rounds half away from zero
RoundTiles(a) ==
    IF 2 * a.r < tile_size_meters THEN a.t
    ELSE IF 2 * a.r > tile_size_meters THEN a.t + 1
    ELSE IF a.t >= 0 THEN a.t + 1 ELSE a.t

\* the literal 1223232.7321 = 23891 * 51.2 + 13.5321
RefX == [t |-> 23891, r |-> 135321]
\* the literal 6075925.1150 = 118670 * 51.2 + 21.1150
RefY == [t |-> 118670, r |-> 211150]
\* the literal 0.0
Zero == [t |-> 0, r |-> 0]

(***************************************************************************)
(* CoordinateMapper: meters_to_tile                                        *)
(***************************************************************************)
\* meters_to_tile with the top-left corner computed from the absolute column
\* and row instead of the offsets from the reference tile
meters_to_tile_abs(x, y) ==
    LET dx == CoordSub(x, RefX)
        dy == CoordSub(y, RefY)
        col_offset == RoundTiles(dx)
        row_offset == RoundTiles(CoordNeg(dy))
        col == base_col + col_offset
        row == base_row + row_offset
        tile_x == CoordAdd(RefX, TileSteps(col))
        tile_y == CoordSub(RefY, TileSteps(row))
    IN  <<row, col, tile_x, tile_y>>

\* meters_to_tile with the offsets rounded down instead of to the nearest tile
meters_to_tile_floor(x, y) ==
    LET dx == CoordSub(x, RefX)
        dy == CoordSub(y, RefY)
        col_offset == dx.t
        row_offset == CoordNeg(dy).t
        col == base_col + col_offset
        row == base_row + row_offset
        tile_x == CoordAdd(RefX, TileSteps(col_offset))
        tile_y == CoordSub(RefY, TileSteps(row_offset))
    IN  <<row, col, tile_x, tile_y>>

\* fn meters_to_tile(x, y) -> (row, col, tile_x, tile_y)
meters_to_tile(x, y) ==
    LET dx == CoordSub(x, RefX)
        dy == CoordSub(y, RefY)
        col_offset == RoundTiles(dx)
        row_offset == RoundTiles(CoordNeg(dy))
        col == base_col + col_offset
        row == base_row + row_offset
        tile_x == CoordAdd(RefX, TileSteps(col_offset))
        tile_y == CoordSub(RefY, TileSteps(row_offset))
    IN  <<row, col, tile_x, tile_y>>

(***************************************************************************)
(* GridBuilder: get_tile_coords                                            *)
(***************************************************************************)
Min(a, b) == IF a <= b THEN a ELSE b
Max(a, b) == IF a >= b THEN a ELSE b

\* TileCoords { row, col, x, y } pushed by the loop body for (row, col)
TileAt(b, row, col, min_row, min_col) ==
    LET m == meters_to_tile(CoordAdd(b[1], TileSteps(col - min_col)),
                            CoordAdd(b[2], TileSteps(row - min_row)))
    IN  [row |-> row, col |-> col, x |-> m[3], y |-> m[4]]

\* for col in col..=max_col { tiles.push(..) }
RECURSIVE ColLoop(_, _, _, _, _, _, _)
ColLoop(b, row, col, min_row, min_col, max_col, acc) ==
    IF col > max_col THEN acc
    ELSE ColLoop(b, row, col + 1, min_row, min_col, max_col,
                 Append(acc, TileAt(b, row, col, min_row, min_col)))

\* for row in row..=max_row { for col in min_col..=max_col { .. } }
RECURSIVE RowLoop(_, _, _, _, _, _, _)
RowLoop(b, row, min_row, max_row, min_col, max_col, acc) ==
    IF row > max_row THEN acc
    ELSE RowLoop(b, row + 1, min_row, max_row, min_col, max_col,
                 ColLoop(b, row, min_col, min_row, min_col, max_col, acc))

\* get_tile_coords with half-open ranges (min..max instead of min..=max)
get_tile_coords_exclusive(b) ==
    LET c1 == meters_to_tile(b[1], b[2])
        c2 == meters_to_tile(b[3], b[4])
        min_row == Min(c2[1], c1[1])
        max_row == Max(c2[1], c1[1])
        min_col == Min(c1[2], c2[2])
        max_col == Max(c1[2], c2[2])
    IN  RowLoop(b, min_row, min_row, max_row - 1, min_col, max_col - 1, <<>>)

\* get_tile_coords without the min/max normalisation of the two corners
get_tile_coords_unnormalised(b) ==
    LET c1 == meters_to_tile(b[1], b[2])
        c2 == meters_to_tile(b[3], b[4])
    IN  RowLoop(b, c1[1], c1[1], c2[1], c1[2], c2[2], <<>>)

\* fn get_tile_coords(bbox) -> Vec<TileCoords>
get_tile_coords(b) ==
    LET c1 == meters_to_tile(b[1], b[2])
        c2 == meters_to_tile(b[3], b[4])
        min_row == Min(c2[1], c1[1])
        max_row == Max(c2[1], c1[1])
        min_col == Min(c1[2], c2[2])
        max_col == Max(c1[2], c2[2])
    IN  RowLoop(b, min_row, min_row, max_row, min_col, max_col, <<>>)

(***************************************************************************)
(* TileClient: download_tile                                               *)
(***************************************************************************)
\* the decimal digits of n, most significant first ({} formatting of a u32)
RECURSIVE Digits(_)
Digits(n) == IF n < 10 THEN <<n>> ELSE Append(Digits(n \div 10), n % 10)

\* a file name built from the row alone
filename_row_only(row, col) == Digits(row) \o <<10>> \o Digits(row)

\* format!("tile_{}_{}.jpeg", row, col): the digits of row, '_' (written 10),
\* the digits of col; the fixed prefix and suffix are left out
filename(row, col) == Digits(row) \o <<10>> \o Digits(col)

\* HTTP status codes the server answers with
StatusCodes == {200, 404}
\* StatusCode::is_success
is_success(code) == code >= 200 /\ code < 300

\* Result<(), Box<dyn Error>> of download_tile (kind "none": not returned yet)
NoResult == [kind |-> "none", code |-> 0]
OkResult == [kind |-> "Ok", code |-> 0]
\* Err("Failed to download tile r,c: <status>")
StatusErr(code) == [kind |-> "Status", code |-> code]
\* Err(reqwest::Error) from send() or bytes(): timeout, connection, DNS
TransportErr == [kind |-> "Transport", code |-> 0]
\* Err(io::Error) from fs::write
IoErr == [kind |-> "Io", code |-> 0]

\* the tasks that hold a permit: spawned and not yet past drop(permit)
Holding == {i \in 1..handles : task[i].st # "done"}

\* download_tile of task i returns r, and with it every other fetch that is
\* still in flight is abandoned when r is a failure
Return_cancelling(i, r) ==
    task' = [j \in 1..handles |->
                IF j = i THEN [st |-> "returned", res |-> r]
                ELSE IF r.kind # "Ok" /\ task[j].st \in {"send", "bytes"}
                     THEN [st |-> "returned", res |-> TransportErr]
                     ELSE task[j]]

\* download_tile of task i returns r to the spawned block (line 291)
Return(i, r) == task' = [task EXCEPT ![i] = [st |-> "returned", res |-> r]]

\* download_tile storing the body before it looks at the status
SendStatus_writes(i, code) ==
    /\ pc \in {"launch", "join"}
    /\ i \in 1..handles
    /\ task[i].st = "send"
    /\ IF is_success(code)
       THEN task' = [task EXCEPT ![i].st = "bytes"] /\ files' = files
       ELSE /\ Return(i, StatusErr(code))
            /\ files' = files \cup {filename(tiles[i].row, tiles[i].col)}
    /\ UNCHANGED <<pc, bbox, concurrent, tiles, permits, handles, progress,
                   results, downloaded_tiles, error_count, vrtFile, vrtFile0,
                   vrtResult, snap, resnap>>

\* client.get(&url).send().await answers with a status line
SendStatus(i, code) ==
    /\ pc \in {"launch", "join"}
    /\ i \in 1..handles
    /\ task[i].st = "send"
    /\ IF is_success(code)
       THEN task' = [task EXCEPT ![i].st = "bytes"]
       ELSE Return(i, StatusErr(code))
    /\ UNCHANGED <<pc, bbox, concurrent, tiles, permits, handles, progress, files,
                   results, downloaded_tiles, error_count, vrtFile, vrtFile0,
                   vrtResult, snap, resnap>>

\* client.get(&url).send().await? fails (timeout, connection, DNS)
SendError(i) ==
    /\ pc \in {"launch", "join"}
    /\ i \in 1..handles
    /\ task[i].st = "send"
    /\ Return(i, TransportErr)
    /\ UNCHANGED <<pc, bbox, concurrent, tiles, permits, handles, progress, files,
                   results, downloaded_tiles, error_count, vrtFile, vrtFile0,
                   vrtResult, snap, resnap>>

\* response.bytes().await? fails while the body is read
BytesError(i) ==
    /\ pc \in {"launch", "join"}
    /\ i \in 1..handles
    /\ task[i].st = "bytes"
    /\ Return(i, TransportErr)
    /\ UNCHANGED <<pc, bbox, concurrent, tiles, permits, handles, progress, files,
                   results, downloaded_tiles, error_count, vrtFile, vrtFile0,
                   vrtResult, snap, resnap>>

\* the body arrives and fs::write(filepath, content) stores it: Ok(())
WriteOk(i) ==
    /\ pc \in {"launch", "join"}
    /\ i \in 1..handles
    /\ task[i].st = "bytes"
    /\ files' = files \cup {filename(tiles[i].row, tiles[i].col)}
    /\ Return(i, OkResult)
    /\ UNCHANGED <<pc, bbox, concurrent, tiles, permits, handles, progress,
                   results, downloaded_tiles, error_count, vrtFile, vrtFile0,
                   vrtResult, snap, resnap>>

\* the body arrives and fs::write(filepath, content)? fails; the file is left
\* absent (create failed) or present (the write failed part-way)
WriteError(i) ==
    /\ pc \in {"launch", "join"}
    /\ i \in 1..handles
    /\ task[i].st = "bytes"
    /\ \E left \in BOOLEAN :
          files' = IF left THEN files \cup {filename(tiles[i].row, tiles[i].col)}
                   ELSE files
    /\ Return(i, IoErr)
    /\ UNCHANGED <<pc, bbox, concurrent, tiles, permits, handles, progress,
                   results, downloaded_tiles, error_count, vrtFile, vrtFile0,
                   vrtResult, snap, resnap>>

\* the spawned block advancing the bar only when download_tile returned Ok
Inc_ok_only(i) ==
    /\ pc \in {"launch", "join"}
    /\ i \in 1..handles
    /\ task[i].st = "returned"
    /\ progress' = IF task[i].res.kind = "Ok" THEN progress + 1 ELSE progress
    /\ task' = [task EXCEPT ![i].st = "counted"]
    /\ UNCHANGED <<pc, bbox, concurrent, tiles, permits, handles, files,
                   results, downloaded_tiles, error_count, vrtFile, vrtFile0,
                   vrtResult, snap, resnap>>

\* progress_bar.inc(1) of the spawned block
Inc(i) ==
    /\ pc \in {"launch", "join"}
    /\ i \in 1..handles
    /\ task[i].st = "returned"
    /\ progress' = progress + 1
    /\ task' = [task EXCEPT ![i].st = "counted"]
    /\ UNCHANGED <<pc, bbox, concurrent, tiles, permits, handles, files,
                   results, downloaded_tiles, error_count, vrtFile, vrtFile0,
                   vrtResult, snap, resnap>>

\* the spawned block giving the permit back only when download_tile returned Ok
Drop_ok_only(i) ==
    /\ pc \in {"launch", "join"}
    /\ i \in 1..handles
    /\ task[i].st = "counted"
    /\ permits' = IF task[i].res.kind = "Ok" THEN permits + 1 ELSE permits
    /\ task' = [task EXCEPT ![i].st = "done"]
    /\ UNCHANGED <<pc, bbox, concurrent, tiles, handles, progress, files,
                   results, downloaded_tiles, error_count, vrtFile, vrtFile0,
                   vrtResult, snap, resnap>>

\* drop(permit); result : the permit returns to the semaphore, the task ends
Drop(i) ==
    /\ pc \in {"launch", "join"}
    /\ i \in 1..handles
    /\ task[i].st = "counted"
    /\ permits' = permits + 1
    /\ task' = [task EXCEPT ![i].st = "done"]
    /\ UNCHANGED <<pc, bbox, concurrent, tiles, handles, progress, files,
                   results, downloaded_tiles, error_count, vrtFile, vrtFile0,
                   vrtResult, snap, resnap>>

(***************************************************************************)
(* MosaicDescriptorWriter: create_vrt                                      *)
(***************************************************************************)
\* one <SimpleSource> element of band `band` for tile `tile`
SimpleSource(tile, band) ==
    [SourceFilename |-> filename(tile.row, tile.col),
     SourceBand     |-> band,
     SrcRect        |-> [xOff |-> 0, yOff |-> 0,
                         xSize |-> TILE_SIZE, ySize |-> TILE_SIZE],
     DstRect        |-> [xOff |-> tile.col * TILE_SIZE,
                         yOff |-> tile.row * TILE_SIZE,
                         xSize |-> TILE_SIZE, ySize |-> TILE_SIZE]]

\* <VRTRasterBand band=..>: its colour and one source per tile, in list order
ColorInterp(band) == IF band = 1 THEN "Red" ELSE IF band = 2 THEN "Green" ELSE "Blue"
VRTRasterBand(ts, band) ==
    [band        |-> band,
     ColorInterp |-> ColorInterp(band),
     sources     |-> [k \in 1..Len(ts) |-> SimpleSource(ts[k], band)]]

\* the document written by a create_vrt whose band loop runs over `bands`
VRTDataset(ts, bands) ==
    [rasterXSize |-> Len(ts) * TILE_SIZE,
     rasterYSize |-> Len(ts) * TILE_SIZE,
     SRS         |-> "EPSG:2154",
     bands       |-> [b \in bands |-> VRTRasterBand(ts, b)]]

\* mosaic.vrt does not exist / holds an earlier run's document / holds the
\* beginning of a document whose writing failed
NoFile == [rasterXSize |-> 0, rasterYSize |-> 0, SRS |-> "absent", bands |-> <<>>]
OldFile == [rasterXSize |-> 0, rasterYSize |-> 0, SRS |-> "old", bands |-> <<>>]
PartialFile == [rasterXSize |-> 0, rasterYSize |-> 0, SRS |-> "partial", bands |-> <<>>]

\* the ways the file system can answer create_vrt: all writes succeed,
\* File::create fails, a writeln! fails
IoOutcomes == {"ok", "create_fails", "write_fails"}

\* create_vrt that opens (and truncates) the file before looking at the count
create_vrt_create_first(ts, downloaded, file, io) ==
    IF io = "create_fails" THEN [result |-> "ErrIo", file |-> file]
    ELSE IF downloaded = 0 THEN [result |-> "ErrNoTiles", file |-> PartialFile]
    ELSE IF io = "write_fails" THEN [result |-> "ErrIo", file |-> PartialFile]
    ELSE [result |-> "Ok", file |-> VRTDataset(ts, 1..3)]

\* create_vrt whose band loop is 1..3 instead of 1..=3
create_vrt_two_bands(ts, downloaded, file, io) ==
    IF downloaded = 0 THEN [result |-> "ErrNoTiles", file |-> file]
    ELSE IF io = "create_fails" THEN [result |-> "ErrIo", file |-> file]
    ELSE IF io = "write_fails" THEN [result |-> "ErrIo", file |-> PartialFile]
    ELSE [result |-> "Ok", file |-> VRTDataset(ts, 1..2)]

\* fn create_vrt(tiles, output_dir, downloaded_tiles) -> Result<(), ..>, with the
\* content of mosaic.vrt before the call and the file system's answer as inputs;
\* yields the result and the content of mosaic.vrt after the call
create_vrt(ts, downloaded, file, io) ==
    IF downloaded = 0 THEN [result |-> "ErrNoTiles", file |-> file]
    ELSE IF io = "create_fails" THEN [result |-> "ErrIo", file |-> file]
    ELSE IF io = "write_fails" THEN [result |-> "ErrIo", file |-> PartialFile]
    ELSE [result |-> "Ok", file |-> VRTDataset(ts, 1..3)]

(***************************************************************************)
(* main: set-up, the fetch batch, aggregation, descriptor stage            *)
(***************************************************************************)
\* the point i tile widths and o units beyond the reference, on one axis
Beyond(ref, i, o) == CoordAdd(ref, [t |-> i, r |-> o])

\* bounding boxes of the runs that are explored: one cell, two columns, two
\* rows, and two rows by two columns
RunBBoxes ==
    {<<RefX, RefY, RefX, RefY>>,
     <<RefX, RefY, Beyond(RefX, 1, 0), RefY>>,
     <<RefX, RefY, RefX, Beyond(RefY, 1, 0)>>,
     <<Beyond(RefX, 0, 300000), RefY, Beyond(RefX, 1, 300000), Beyond(RefY, 1, 0)>>}

\* no result of meters_to_tile yet
NoCell == <<0, 0, Zero, Zero>>

Init ==
    /\ pc = "setup"
    /\ bbox \in RunBBoxes
    /\ concurrent \in 0..MaxConcurrent
    /\ tiles = <<>>
    /\ permits = 0
    /\ handles = 0
    /\ task = <<>>
    /\ progress = 0
    /\ files = {filename(base_row, base_col)}
    /\ results = <<>>
    /\ downloaded_tiles = 0
    /\ error_count = 0
    /\ vrtFile \in {NoFile, OldFile}
    /\ vrtFile0 = vrtFile
    /\ vrtResult = "none"
    /\ snap = NoCell
    /\ resnap = NoCell

\* lines 246-257: the tiles directory is removed (best effort) and re-created,
\* the client is built, the semaphore gets `concurrent` permits
Setup ==
    /\ pc = "setup"
    /\ \E removed \in BOOLEAN : files' = IF removed THEN {} ELSE files
    /\ permits' = concurrent
    /\ pc' = "grid"
    /\ UNCHANGED <<bbox, concurrent, tiles, handles, task, progress, results,
                   downloaded_tiles, error_count, vrtFile, vrtFile0, vrtResult,
                   snap, resnap>>

\* fs::create_dir_all(..)? or Client::builder().build()? fails: main returns Err
SetupFails ==
    /\ pc = "setup"
    /\ \E removed \in BOOLEAN : files' = IF removed THEN {} ELSE files
    /\ pc' = "fatal"
    /\ UNCHANGED <<bbox, concurrent, tiles, permits, handles, task, progress,
                   results, downloaded_tiles, error_count, vrtFile, vrtFile0,
                   vrtResult, snap, resnap>>

\* lines 260-271: tiles = get_tile_coords(bbox); return Ok(()) when it is empty
GetTiles ==
    /\ pc = "grid"
    /\ tiles' = get_tile_coords(bbox)
    /\ pc' = IF Len(tiles') = 0 THEN "notiles" ELSE "launch"
    /\ UNCHANGED <<bbox, concurrent, permits, handles, task, progress, files,
                   results, downloaded_tiles, error_count, vrtFile, vrtFile0,
                   vrtResult, snap, resnap>>

\* the for loop spawning the next tile's task without acquiring a permit
Launch_ungated ==
    /\ pc = "launch"
    /\ handles < Len(tiles)
    /\ handles' = handles + 1
    /\ task' = Append(task, [st |-> "send", res |-> NoResult])
    /\ UNCHANGED <<pc, bbox, concurrent, tiles, permits, progress, files, results,
                   downloaded_tiles, error_count, vrtFile, vrtFile0, vrtResult,
                   snap, resnap>>

\* lines 284-298, one iteration: acquire_owned().await returns a permit, the
\* task is spawned (it starts download_tile) and its handle is pushed
Launch ==
    /\ pc = "launch"
    /\ handles < Len(tiles)
    /\ permits > 0
    /\ permits' = permits - 1
    /\ handles' = handles + 1
    /\ task' = Append(task, [st |-> "send", res |-> NoResult])
    /\ UNCHANGED <<pc, bbox, concurrent, tiles, progress, files, results,
                   downloaded_tiles, error_count, vrtFile, vrtFile0, vrtResult,
                   snap, resnap>>

\* the for loop has gone through every tile: main reaches join_all
LoopEnd ==
    /\ pc = "launch"
    /\ handles = Len(tiles)
    /\ pc' = "join"
    /\ UNCHANGED <<bbox, concurrent, tiles, permits, handles, task, progress, files,
                   results, downloaded_tiles, error_count, vrtFile, vrtFile0,
                   vrtResult, snap, resnap>>

\* join_all keeping only the tasks that returned Ok
Collect_ok_only(ts) == SelectSeq([i \in 1..Len(ts) |-> ts[i].res], LAMBDA r : r.kind = "Ok")

\* the Vec returned by join_all(handles): each task's result, in handle order
Collect(ts) == [i \in 1..Len(ts) |-> ts[i].res]

\* a join that also completes as soon as one ended task has failed
JoinAll_first_failure ==
    /\ pc = "join"
    /\ \/ \A i \in 1..handles : task[i].st = "done"
       \/ \E i \in 1..handles : task[i].st = "done" /\ task[i].res.kind # "Ok"
    /\ results' = Collect(task)
    /\ progress' = Len(tiles)
    /\ pc' = "aggregate"
    /\ UNCHANGED <<bbox, concurrent, tiles, permits, handles, task, files,
                   downloaded_tiles, error_count, vrtFile, vrtFile0, vrtResult,
                   snap, resnap>>

\* lines 301-303: join_all(handles).await completes once every task has ended;
\* progress_bar.finish_with_message moves the bar to its length
JoinAll ==
    /\ pc = "join"
    /\ \A i \in 1..handles : task[i].st = "done"
    /\ results' = Collect(task)
    /\ progress' = Len(tiles)
    /\ pc' = "aggregate"
    /\ UNCHANGED <<bbox, concurrent, tiles, permits, handles, task, files,
                   downloaded_tiles, error_count, vrtFile, vrtFile0, vrtResult,
                   snap, resnap>>

\* the Ok(Ok(_)) arm, and the Ok(Err(e)) and Err(e) arms, of the match
CountOk(rs) == Cardinality({i \in 1..Len(rs) : rs[i].kind = "Ok"})
CountErr(rs) == Cardinality({i \in 1..Len(rs) : rs[i].kind # "Ok"})

\* lines 306-330: the results are counted
Aggregate ==
    /\ pc = "aggregate"
    /\ downloaded_tiles' = CountOk(results)
    /\ error_count' = CountErr(results)
    /\ pc' = "vrt"
    /\ UNCHANGED <<bbox, concurrent, tiles, permits, handles, task, progress, files,
                   results, vrtFile, vrtFile0, vrtResult, snap, resnap>>

\* the tiles of ts whose result in rs is Ok, in list order
RECURSIVE Fetched(_, _)
Fetched(ts, rs) ==
    IF Len(ts) = 0 \/ Len(rs) = 0 THEN <<>>
    ELSE IF Head(rs).kind = "Ok" THEN <<Head(ts)>> \o Fetched(Tail(ts), Tail(rs))
    ELSE Fetched(Tail(ts), Tail(rs))

\* main handing create_vrt only the tiles whose fetch succeeded
CreateVrt_fetched_only ==
    /\ pc = "vrt"
    /\ \E io \in IoOutcomes :
          LET r == create_vrt(Fetched(tiles, results), downloaded_tiles, vrtFile, io)
          IN  /\ vrtResult' = r.result
              /\ vrtFile' = r.file
    /\ pc' = "done"
    /\ UNCHANGED <<bbox, concurrent, tiles, permits, handles, task, progress, files,
                   results, downloaded_tiles, error_count, vrtFile0, snap, resnap>>

\* lines 333-337: create_vrt is called and its result reported
CreateVrt ==
    /\ pc = "vrt"
    /\ \E io \in IoOutcomes :
          LET r == create_vrt(tiles, downloaded_tiles, vrtFile, io)
          IN  /\ vrtResult' = r.result
              /\ vrtFile' = r.file
    /\ pc' = "done"
    /\ UNCHANGED <<bbox, concurrent, tiles, permits, handles, task, progress, files,
                   results, downloaded_tiles, error_count, vrtFile0, snap, resnap>>

\* one step of one spawned task
TaskStep ==
    \E i \in 1..handles :
        \/ \E code \in StatusCodes : SendStatus(i, code)
        \/ SendError(i)
        \/ BytesError(i)
        \/ WriteOk(i)
        \/ WriteError(i)
        \/ Inc(i)
        \/ Drop(i)

Next ==
    \/ Setup
    \/ SetupFails
    \/ GetTiles
    \/ Launch
    \/ LoopEnd
    \/ TaskStep
    \/ JoinAll
    \/ Aggregate
    \/ CreateVrt

Spec == Init /\ [][Next]_vars

\* the runtime keeps polling main and every spawned task, and every request
\* ends (response, error or the client's timeout)
FairSpec == Spec /\ WF_vars(Next)

(***************************************************************************)
(* Grid probe: meters_to_tile and get_tile_coords applied to bounded       *)
(* inputs                                                                  *)
(***************************************************************************)
\* positions inside a tile width: on the grid line through the reference, on
\* the rounding boundary half a tile further, and in between
GridOffsets == {0, tile_size_meters \div 2, 300000}

\* coordinates from one tile width before the reference to MaxSpan after it
GridXs == {Beyond(RefX, i, o) : i \in -1..MaxSpan, o \in GridOffsets}
GridYs == {Beyond(RefY, i, o) : i \in -1..MaxSpan, o \in GridOffsets}

\* every box over these coordinates (reversed and zero-span ones included),
\* and the zero-span box at the origin of the projection
GridBBoxes ==
    {<<x1, y1, x2, y2>> : x1 \in GridXs, y1 \in GridYs, x2 \in GridXs, y2 \in GridYs}
        \cup {<<Zero, Zero, Zero, Zero>>}

InitGrid ==
    /\ pc = "probe"
    /\ bbox \in GridBBoxes
    /\ concurrent = 0
    /\ tiles = <<>>
    /\ permits = 0
    /\ handles = 0
    /\ task = <<>>
    /\ progress = 0
    /\ files = {}
    /\ results = <<>>
    /\ downloaded_tiles = 0
    /\ error_count = 0
    /\ vrtFile = NoFile
    /\ vrtFile0 = NoFile
    /\ vrtResult = "none"
    /\ snap = NoCell
    /\ resnap = NoCell

\* meters_to_tile applied to the box's first corner (line 102)
ProbeSnap ==
    /\ pc = "probe"
    /\ snap' = meters_to_tile(bbox[1], bbox[2])
    /\ pc' = "snapped"
    /\ UNCHANGED <<bbox, concurrent, tiles, permits, handles, task, progress, files,
                   results, downloaded_tiles, error_count, vrtFile, vrtFile0,
                   vrtResult, resnap>>

\* meters_to_tile applied to the top-left coordinate it returned
ProbeResnap ==
    /\ pc = "snapped"
    /\ resnap' = meters_to_tile(snap[3], snap[4])
    /\ pc' = "resnapped"
    /\ UNCHANGED <<bbox, concurrent, tiles, permits, handles, task, progress, files,
                   results, downloaded_tiles, error_count, vrtFile, vrtFile0,
                   vrtResult, snap>>

\* get_tile_coords applied to the box, and main's test of its length (line 263)
ProbeExpand ==
    /\ pc = "resnapped"
    /\ tiles' = get_tile_coords(bbox)
    /\ pc' = IF Len(tiles') = 0 THEN "notiles" ELSE "expanded"
    /\ UNCHANGED <<bbox, concurrent, permits, handles, task, progress, files,
                   results, downloaded_tiles, error_count, vrtFile, vrtFile0,
                   vrtResult, snap, resnap>>

NextGrid == ProbeSnap \/ ProbeResnap \/ ProbeExpand

SpecGrid == InitGrid /\ [][NextGrid]_vars

(***************************************************************************)
(* Properties of the fetch batch (checked under Spec / FairSpec)           *)
(***************************************************************************)
\* tasks inside download_tile: awaiting the response or its body
InFlight == {i \in 1..handles : task[i].st \in {"send", "bytes"}}

\* C1: at every point of the batch the number of tile fetches in flight is at
\* most the concurrency limit; so is the number of tasks holding a permit.
C1_InFlightBounded ==
    /\ Cardinality(InFlight) <= concurrent
    /\ Cardinality(Holding) <= concurrent

\* C1 witness: the limit is reached with two fetches in flight while a further
\* tile is still waiting to be launched
C1_Witness ==
    /\ concurrent = 2
    /\ Cardinality(InFlight) = 2
    /\ handles < Len(tiles)

\* C2: once the batch is joined there are exactly K outcomes, the i-th being the
\* result of the i-th tile's task, and after aggregation the success count and
\* the failure count add up to K.
C2_OneOutcomePerTile ==
    /\ pc \in {"aggregate", "vrt", "done"} =>
          /\ Len(results) = Len(tiles)
          /\ Len(tiles) >= 1
          /\ \A i \in 1..Len(tiles) :
                results[i] = task[i].res /\ results[i].kind # "none"
    /\ pc \in {"vrt", "done"} => downloaded_tiles + error_count = Len(tiles)

\* C2 witness: a finished run over four tiles with successes and failures
C2_Witness ==
    /\ pc = "done"
    /\ Len(tiles) = 4
    /\ downloaded_tiles >= 1
    /\ error_count >= 1

\* C3: the step in which one tile's fetch fails changes no other task, takes no
\* permit and does not move main; a non-2xx status becomes a failure carrying
\* that status, a transport error and a write error become failures of their
\* own kind.
C3_FailureIsLocal ==
    [][\A i \in 1..handles :
          /\ (task[i].res = NoResult /\ task'[i].res.kind \notin {"none", "Ok"}) =>
                /\ \A j \in 1..handles : j # i => task'[j] = task[j]
                /\ permits' = permits /\ pc' = pc /\ handles' = handles
          /\ \A code \in StatusCodes :
                (SendStatus(i, code) /\ ~is_success(code)) =>
                    task'[i].res = StatusErr(code)
          /\ (SendError(i) \/ BytesError(i)) => task'[i].res = TransportErr
          /\ WriteError(i) => task'[i].res = IoErr]_vars

\* C3 witness: a finished run in which the first tile failed with HTTP 404 and
\* the second tile succeeded
C3_Witness ==
    /\ pc = "done"
    /\ Len(results) >= 2
    /\ results[1] = StatusErr(404)
    /\ results[2] = OkResult

\* C4: every run with a non-empty tile list reaches the descriptor-writing
\* stage, whatever the concurrency limit and the outcomes of the fetches.
C4_ReachesDescriptorStage == (pc = "launch") ~> (pc = "vrt")

\* C5: with a success count of zero create_vrt returns the "no tiles" failure
\* and mosaic.vrt is exactly what it was when the run started.
C5_RefusesWithoutSuccess ==
    (pc = "done" /\ downloaded_tiles = 0) =>
        /\ vrtResult = "ErrNoTiles"
        /\ vrtFile = vrtFile0

\* C5 witness: a finished run over two tiles, both failed, with an earlier
\* mosaic.vrt on disk
C5_Witness ==
    /\ pc = "done"
    /\ Len(tiles) = 2
    /\ error_count = 2
    /\ vrtFile0 = OldFile

\* the <SimpleSource> entries of a written document, over all bands
SourceEntries(doc) ==
    UNION {{<<b, k>> : k \in DOMAIN doc.bands[b].sources} : b \in DOMAIN doc.bands}

\* C6: with a success count of at least one (and no I/O error from the file
\* system) create_vrt returns Ok and the document has width and height
\* tileCount * 256, three bands and 3 * tileCount source entries: band b holds
\* one entry per tile, in list order, at offset (col * 256, row * 256) with
\* size 256 x 256.
C6_DescriptorShape ==
    (pc = "done" /\ downloaded_tiles >= 1 /\ vrtResult # "ErrIo") =>
        /\ vrtResult = "Ok"
        /\ vrtFile.rasterXSize = Len(tiles) * 256
        /\ vrtFile.rasterYSize = Len(tiles) * 256
        /\ DOMAIN vrtFile.bands = 1..3
        /\ Cardinality(SourceEntries(vrtFile)) = 3 * Len(tiles)
        /\ \A b \in DOMAIN vrtFile.bands :
              /\ Len(vrtFile.bands[b].sources) = Len(tiles)
              /\ \A k \in 1..Len(tiles) :
                    LET e == vrtFile.bands[b].sources[k]
                    IN  /\ e.SourceBand = b
                        /\ e.SourceFilename = filename(tiles[k].row, tiles[k].col)
                        /\ e.DstRect = [xOff |-> tiles[k].col * 256,
                                        yOff |-> tiles[k].row * 256,
                                        xSize |-> 256, ySize |-> 256]

\* C6 witness: a finished run over four tiles, not all fetched, whose
\* descriptor was written
C6_Witness ==
    /\ pc = "done"
    /\ vrtResult = "Ok"
    /\ Len(tiles) = 4
    /\ error_count >= 1

(***************************************************************************)
(* Properties of the grid computation (checked under SpecGrid)             *)
(***************************************************************************)
\* the box spans exactly n tile widths and m tile heights
ExactSpan(b, n, m) ==
    /\ b[3] = CoordAdd(b[1], TileSteps(n))
    /\ b[4] = CoordAdd(b[2], TileSteps(m))

\* the coordinate lies exactly half a tile from the grid lines through the
\* reference, where round() switches cells
OnRoundingBoundary(c, ref) == 2 * CoordSub(c, ref).r = tile_size_meters

\* C7 as stated: a box spanning exactly N x M tile widths/heights yields
\* exactly N * M tiles (one tile for a single tile's extent, 4 for 2 x 2).
C7_Original ==
    pc = "expanded" =>
        \A n, m \in 1..(MaxSpan + 1) :
            ExactSpan(bbox, n, m) => Len(tiles) = n * m

\* C7 amended: a box spanning exactly N x M tile widths/heights, with no edge on
\* a rounding boundary, yields exactly (N + 1) * (M + 1) tiles, the cells of
\* both corners being included: 4 tiles for a single tile's extent, 9 for a
\* 2 x 2 span.
C7_SpanPlusOne ==
    pc = "expanded" =>
        \A n, m \in 1..(MaxSpan + 1) :
            (/\ ExactSpan(bbox, n, m)
             /\ ~OnRoundingBoundary(bbox[1], RefX)
             /\ ~OnRoundingBoundary(bbox[2], RefY)) =>
                Len(tiles) = (n + 1) * (m + 1)

\* C7 witness: the exact extent of the reference tile has been expanded, into
\* four tiles
C7_Witness ==
    /\ pc = "expanded"
    /\ bbox = <<RefX, RefY, Beyond(RefX, 1, 0), Beyond(RefY, 1, 0)>>
    /\ Len(tiles) = 4

\* C8: the returned sequence holds every cell of the rectangle between the two
\* corner cells exactly once and nothing else, rows ascending and columns
\* ascending within a row.
C8_RowMajorRectangle ==
    pc \in {"expanded", "notiles"} =>
        LET c1 == meters_to_tile(bbox[1], bbox[2])
            c2 == meters_to_tile(bbox[3], bbox[4])
            minRow == IF c1[1] <= c2[1] THEN c1[1] ELSE c2[1]
            maxRow == IF c1[1] <= c2[1] THEN c2[1] ELSE c1[1]
            minCol == IF c1[2] <= c2[2] THEN c1[2] ELSE c2[2]
            maxCol == IF c1[2] <= c2[2] THEN c2[2] ELSE c1[2]
        IN  /\ Len(tiles) = (maxRow - minRow + 1) * (maxCol - minCol + 1)
            /\ \A r \in minRow..maxRow, c \in minCol..maxCol :
                  \E k \in 1..Len(tiles) : tiles[k].row = r /\ tiles[k].col = c
            /\ \A k \in 1..Len(tiles) :
                  /\ tiles[k].row \in minRow..maxRow
                  /\ tiles[k].col \in minCol..maxCol
            /\ \A k \in 1..(Len(tiles) - 1) :
                  \/ tiles[k].row < tiles[k + 1].row
                  \/ tiles[k].row = tiles[k + 1].row /\ tiles[k].col < tiles[k + 1].col

\* C8 witness: a box given with its corners reversed on both axes has been
\* expanded into several rows and several columns
C8_Witness ==
    /\ pc = "expanded"
    /\ meters_to_tile(bbox[1], bbox[2])[2] > meters_to_tile(bbox[3], bbox[4])[2]
    /\ meters_to_tile(bbox[1], bbox[2])[1] < meters_to_tile(bbox[3], bbox[4])[1]
    /\ Len(tiles) >= 6
    /\ tiles[1].row < tiles[Len(tiles)].row
    /\ tiles[1].col < tiles[Len(tiles)].col

\* C9: mapping a point to its cell and re-mapping the returned top-left
\* coordinate gives the same (row, col, tile_x, tile_y).
C9_SnapIdempotent ==
    pc \in {"resnapped", "expanded"} => resnap = snap

\* C9 witness: a point off the grid, in another cell than the reference, has
\* been mapped and re-mapped
C9_Witness ==
    /\ pc = "resnapped"
    /\ snap[3] # bbox[1]
    /\ snap[4] # bbox[2]
    /\ snap[1] # base_row
    /\ snap[2] # base_col

\* the box has no extent
ZeroSpan(b) == b[1] = b[3] /\ b[2] = b[4]

\* C10 as stated: a zero-span box yields exactly one tile, the cell of its
\* point, and for the box (0,0,0,0) that tile is the anchor (195404, 275651).
C10_Original ==
    (pc = "expanded" /\ ZeroSpan(bbox)) =>
        /\ Len(tiles) = 1
        /\ tiles[1].row = snap[1]
        /\ tiles[1].col = snap[2]
        /\ bbox = <<Zero, Zero, Zero, Zero>> =>
              tiles[1].row = 195404 /\ tiles[1].col = 275651

\* C10 amended: a zero-span box yields exactly one tile, the cell of its point;
\* the box (0,0,0,0) yields the tile (row 314074, col 251760), and it is the
\* zero-span box at the reference point (1223232.7321, 6075925.1150) that
\* yields the anchor (195404, 275651).
C10_ZeroSpanOneTile ==
    (pc = "expanded" /\ ZeroSpan(bbox)) =>
        /\ Len(tiles) = 1
        /\ tiles[1].row = snap[1]
        /\ tiles[1].col = snap[2]
        /\ bbox = <<Zero, Zero, Zero, Zero>> =>
              tiles[1].row = 314074 /\ tiles[1].col = 251760
        /\ bbox = <<RefX, RefY, RefX, RefY>> =>
              tiles[1].row = 195404 /\ tiles[1].col = 275651

\* C10 witness: the box (0,0,0,0) has been expanded into one tile
C10_Witness ==
    /\ pc = "expanded"
    /\ bbox = <<Zero, Zero, Zero, Zero>>
    /\ Len(tiles) = 1

(***************************************************************************)
(* Further properties of the fetch batch and the descriptor (Spec)         *)
(***************************************************************************)
\* tasks whose download_tile has returned (success or failure)
Resolved == {i \in 1..handles : task[i].res # NoResult}

\* C11: while the batch runs the bar's position is the number of tasks that
\* went through progress_bar.inc(1), one per resolved fetch whatever its
\* result, so it never exceeds the number of resolved fetches; once every task
\* of the K tiles has ended, and from then on, it is K.
C11_ProgressCounts ==
    /\ pc \in {"launch", "join"} =>
          /\ progress = Cardinality({i \in 1..handles :
                                        task[i].st \in {"counted", "done"}})
          /\ progress <= Cardinality(Resolved)
    /\ (/\ pc = "join"
        /\ \A i \in 1..handles : task[i].st = "done") => progress = Len(tiles)
    /\ pc \in {"aggregate", "vrt", "done"} => progress = Len(tiles)

\* C11 witness: main waits in join_all, all four tasks have ended, one of them
\* with a failure and one with a success, and the bar stands at 4
C11_Witness ==
    /\ pc = "join"
    /\ Len(tiles) = 4
    /\ \A i \in 1..handles : task[i].st = "done"
    /\ \E i \in 1..handles : task[i].res.kind = "Ok"
    /\ \E i \in 1..handles : task[i].res.kind # "Ok"
    /\ progress = 4

\* C12: a written descriptor lists, in every band, the files of the full tile
\* list of get_tile_coords(bbox) in list order; it is a function of the bounding
\* box alone, whatever the fetch outcomes were, and so holds entries for tiles
\* whose fetch failed.
C12_DescriptorIgnoresOutcomes ==
    (pc = "done" /\ vrtResult = "Ok") =>
        LET full == get_tile_coords(bbox)
        IN  \A b \in DOMAIN vrtFile.bands :
                /\ Len(vrtFile.bands[b].sources) = Len(full)
                /\ \A k \in 1..Len(full) :
                      vrtFile.bands[b].sources[k].SourceFilename =
                          filename(full[k].row, full[k].col)

\* C12 witness: a descriptor was written after the first tile's fetch failed
\* and left no file, and it still lists that tile
C12_Witness ==
    /\ pc = "done"
    /\ vrtResult = "Ok"
    /\ Len(tiles) >= 2
    /\ results[1].kind # "Ok"
    /\ filename(tiles[1].row, tiles[1].col) \notin files
    /\ vrtFile.bands[1].sources[1].SourceFilename =
          filename(tiles[1].row, tiles[1].col)

\* C13: in a written descriptor every source entry lies inside the canvas:
\* 0 <= xOff, xOff + 256 <= rasterXSize, 0 <= yOff, yOff + 256 <= rasterYSize.
C13_WithinCanvas ==
    (pc = "done" /\ vrtResult = "Ok") =>
        \A b \in DOMAIN vrtFile.bands :
            \A k \in DOMAIN vrtFile.bands[b].sources :
                LET d == vrtFile.bands[b].sources[k].DstRect
                IN  /\ 0 <= d.xOff
                    /\ d.xOff + 256 <= vrtFile.rasterXSize
                    /\ 0 <= d.yOff
                    /\ d.yOff + 256 <= vrtFile.rasterYSize

\* C14: aggregation and the descriptor stage are reached only after every
\* tile's task has been launched and has ended; a failure does not end the
\* batch while other fetches are pending or in flight.
C14_JoinWaitsForAll ==
    pc \in {"aggregate", "vrt", "done"} =>
        /\ handles = Len(tiles)
        /\ \A i \in 1..handles : task[i].st = "done" /\ task[i].res # NoResult
        /\ InFlight = {}

\* C14 witness: the first tile's fetch has failed and ended while two others
\* are in flight and main waits in join_all
C14_Witness ==
    /\ pc = "join"
    /\ handles >= 3
    /\ task[1].st = "done"
    /\ task[1].res.kind # "Ok"
    /\ Cardinality(InFlight) = 2

\* C15 as stated (for a limit of at least one): whenever a tile is still to be
\* launched main can launch it, whatever the other tiles' fetches are doing.
C15_Original ==
    (pc = "launch" /\ handles < Len(tiles) /\ concurrent >= 1) => ENABLED Launch

\* C15 amended: tasks are launched in list order by main, which itself obtains
\* the permit before spawning: the next launch is possible exactly when fewer
\* than C tasks hold a permit, so with C tasks unresolved it waits for one of
\* them to end; a spawned task holds its permit from its first step and never
\* waits for admission.
C15_LaunchWaitsForPermit ==
    /\ (pc = "launch" /\ handles < Len(tiles)) =>
          (ENABLED Launch <=> Cardinality(Holding) < concurrent)
    /\ pc \in {"launch", "join"} =>
          /\ Len(task) = handles
          /\ handles <= Len(tiles)
          /\ permits = concurrent - Cardinality(Holding)

\* C15 witness: with a limit of 1 the first tile's fetch is in flight, a second
\* tile is still to be launched and main cannot launch it
C15_Witness ==
    /\ pc = "launch"
    /\ concurrent = 1
    /\ handles = 1
    /\ handles < Len(tiles)
    /\ task[1].st = "send"
    /\ ~ENABLED Launch

\* what C17 asks of one step: a tile's file is written only by a task that
\* received a 2xx status and is reading the body; a task that fails with a status (which its error
\* carries, and which is not 2xx) or with a transport error leaves every file
\* as it was; a task returns Ok only with its file in place, and a failed
\* write after a 2xx status is that task's failure.
WriteStep ==
    (pc \in {"launch", "join"} =>
          /\ \A i \in 1..handles :
                /\ (/\ task[i].res = NoResult
                    /\ task'[i].res.kind \in {"Status", "Transport"}) =>
                      /\ files' = files
                      /\ task'[i].res.kind = "Status" =>
                            /\ task[i].st = "send"
                            /\ task'[i].res.code \in StatusCodes
                            /\ ~is_success(task'[i].res.code)
                /\ (task[i].res = NoResult /\ task'[i].res.kind \in {"Ok", "Io"}) =>
                      task[i].st = "bytes"
                /\ (task[i].res = NoResult /\ task'[i].res.kind = "Ok") =>
                      filename(tiles[i].row, tiles[i].col) \in files'
          /\ files' # files =>
                \E i \in 1..handles :
                    /\ task[i].st = "bytes"
                    /\ task'[i].res.kind \in {"Ok", "Io"}
                    /\ files' = files \cup {filename(tiles[i].row, tiles[i].col)})

\* C17: every step of a run is a WriteStep: files are written only after a 2xx
\* status, and status and transport failures leave the files untouched.
C17_WriteOnlyAfterSuccess == [][WriteStep]_vars

\* C17 witness: a finished run whose four tiles ended with a 404, a transport
\* error, a write error that left nothing, and a success; only the last
\* tile's file exists
C17_Witness ==
    /\ pc = "done"
    /\ Len(results) = 4
    /\ results[1] = StatusErr(404)
    /\ results[2] = TransportErr
    /\ results[3] = IoErr
    /\ results[4] = OkResult
    /\ files = {filename(tiles[4].row, tiles[4].col)}

\* C19: from the creation of the semaphore on, the available permits plus the
\* permits held by tasks that have not ended are C; once the batch is joined
\* all C permits are available again, whatever the tasks' results.
C19_PermitsConserved ==
    /\ pc \in {"grid", "notiles", "launch", "join", "aggregate", "vrt", "done"} =>
          /\ permits >= 0
          /\ permits + Cardinality(Holding) = concurrent
    /\ pc \in {"aggregate", "vrt", "done"} => permits = concurrent

\* C19 witness: a finished run over four tiles with a limit of 2, with failed
\* and successful fetches, and both permits available
C19_Witness ==
    /\ pc = "done"
    /\ Len(tiles) = 4
    /\ concurrent = 2
    /\ permits = 2
    /\ error_count >= 2
    /\ downloaded_tiles >= 1

(***************************************************************************)
(* Further properties of the grid computation (SpecGrid)                   *)
(***************************************************************************)
\* C16: every returned tile carries the top-left coordinate of its own cell:
\* meters_to_tile(t.x, t.y) = (t.row, t.col, t.x, t.y).
C16_OwnCell ==
    pc = "expanded" =>
        \A k \in 1..Len(tiles) :
            meters_to_tile(tiles[k].x, tiles[k].y) =
                <<tiles[k].row, tiles[k].col, tiles[k].x, tiles[k].y>>

\* the file names of a tile list
FileNames(ts) == {filename(ts[k].row, ts[k].col) : k \in 1..Len(ts)}

\* C18: the tiles of one list have pairwise distinct file names, so no two
\* tasks of a batch write the same file.
C18_DistinctFiles ==
    pc = "expanded" => Cardinality(FileNames(tiles)) = Len(tiles)

\* C18 witness: a list of at least six tiles over several rows and columns,
\* with six or more different file names
C18_Witness ==
    /\ pc = "expanded"
    /\ Len(tiles) >= 6
    /\ tiles[1].row # tiles[Len(tiles)].row
    /\ tiles[1].col # tiles[Len(tiles)].col
    /\ Cardinality(FileNames(tiles)) >= 6

\* C20: get_tile_coords returns at least one tile for every box, reversed and
\* zero-span ones included, so the "no tiles" return of main is never taken.
C20_NeverEmpty ==
    /\ pc # "notiles"
    /\ pc = "expanded" => Len(tiles) >= 1

\* C20 witness: a box whose first corner lies right of and above its second
\* corner has been expanded, into at least two tiles
C20_Witness ==
    /\ pc = "expanded"
    /\ CoordSub(bbox[1], bbox[3]).t >= 1
    /\ CoordSub(bbox[2], bbox[4]).t >= 1
    /\ Len(tiles) >= 2

====
